---- MODULE Spec2Model ----
(***************************************************************************)
(* Identity learning cache (cache_manager.CacheManager, app.load_data,     *)
(* app.save_data) and the precaching game loop of app.py                   *)
(* (precache_images_for_game, run_single_game_with_precaching).            *)
(*                                                                         *)
(* Strings are sequences of code points, so that str.lower(), name[0] and  *)
(* sorted() are computed as Python computes them.  A fingerprint (hex      *)
(* digest) is a natural number: its rank in the lexicographic order of the *)
(* digests in play.  Python's None is NoName / NoHash / NoId.              *)
(***************************************************************************)
EXTENDS Integers, Sequences, FiniteSets, TLC

\* ------------------------------------------------------------------ bounds
NumHashes == 2
MaxOps == 6
MaxFetchFailures == 2
WindowStart == 1
Hashes == 1..NumHashes
NoHash == 0

\* ------------------------------------------------------------------ strings
Ana == <<65, 110, 97>>
AnaLower == <<97, 110, 97>>
Bob == <<66, 111, 98>>
EmptyStr == <<>>
NoName == <<0>>
Names == {Ana, AnaLower, Bob}

LowerChar(c) == IF c >= 65 /\ c <= 90 THEN c + 32 ELSE c
Lower(s) == [k \in 1..Len(s) |-> LowerChar(s[k])]
FirstLetter(name) == IF name # EmptyStr THEN <<LowerChar(name[1])>> ELSE EmptyStr
Letters == {FirstLetter(n) : n \in Names}

\* Truthiness of an optional string: None and '' are falsy.
Truthy(s) == s # NoName /\ s # EmptyStr

\* ------------------------------------------------------------------ dicts
\* A Python dict with fingerprint keys: a function on a subset of Hashes.
EmptyDict == [h \in {} |-> NoName]
DictSet(d, h, n) == [k \in DOMAIN d \cup {h} |-> IF k = h THEN n ELSE d[k]]
DictGet(d, h) == IF h \in DOMAIN d THEN d[h] ELSE NoName

\* ------------------------------------------------------------------ JSON file
\* The parsed content of faces_data.json: absent, a JSON object (the ordered
\* sequence of its key/value pairs), a JSON array of records in which a
\* missing "hash" / "name" field is NoHash / NoName, text that json.load
\* rejects with JSONDecodeError, or bytes that are not UTF-8, on which reading
\* the file raises UnicodeDecodeError.
NoFile == [kind |-> "absent", items |-> <<>>]
CorruptFile == [kind |-> "corrupt", items |-> <<>>]
UndecodableFile == [kind |-> "undecodable", items |-> <<>>]
NotJson == {CorruptFile, UndecodableFile}
MapFile(items) == [kind |-> "map", items |-> items]
ListFile(items) == [kind |-> "list", items |-> items]

\* json.load of an object: later pairs of a key overwrite earlier ones.
RECURSIVE PairsToDict(_)
PairsToDict(items) ==
  IF items = <<>> THEN EmptyDict
  ELSE LET front == SubSeq(items, 1, Len(items) - 1)
           p == items[Len(items)]
       IN DictSet(PairsToDict(front), p[1], p[2])

\* The value a reader of the durable file finds for fingerprint h.
RECURSIVE ListLookup(_, _)
ListLookup(items, h) ==
  IF items = <<>> THEN NoName
  ELSE LET r == items[Len(items)]
       IN IF r.hash = h /\ r.hash # NoHash /\ r.name # NoName THEN r.name
          ELSE ListLookup(SubSeq(items, 1, Len(items) - 1), h)
FileLookup(f, h) ==
  CASE f.kind = "map" -> DictGet(PairsToDict(f.items), h)
    [] f.kind = "list" -> ListLookup(f.items, h)
    [] OTHER -> NoName

\* data[image_hash] = name on the loaded object, keeping the key order of the
\* file: an existing key keeps its place, a new key goes last.
RECURSIVE PairsUpdate(_, _, _)
PairsUpdate(items, h, n) ==
  IF items = <<>> THEN <<>>
  ELSE <<IF items[1][1] = h THEN <<h, n>> ELSE items[1]>>
         \o PairsUpdate(Tail(items), h, n)
PairsPut(items, h, n) ==
  IF \E k \in 1..Len(items) : items[k][1] = h THEN PairsUpdate(items, h, n)
  ELSE Append(items, <<h, n>>)

VARIABLES
  diskOk       \* environment: faces_data.json can be opened for writing

\* CacheManager._update_json_file: read the file, data[image_hash] = name,
\* write it back.  On an array the assignment raises TypeError, and open(...,
\* 'w') raises OSError when the file cannot be written; either is caught
\* and logged: the file is left as it was.
UpdateJsonFile(f, h, n) ==
  CASE f.kind = "absent" /\ diskOk -> MapFile(<<<<h, n>>>>)
    [] f.kind = "map" /\ diskOk -> MapFile(PairsPut(f.items, h, n))
    [] OTHER -> f

\* ------------------------------------------------------------------ state
VARIABLES
  redisUp,     \* environment: the Redis server answers
  phase,       \* "off" before CacheManager() is constructed, "ready", "loaded" once load_data ran
  connected,   \* CacheManager.connected
  redis,       \* the Redis database: hash:<h> keys, name:<n> sets, index:letter:<l> sets
  jsonFile,    \* the content of faces_data.json
  last,        \* history: the last call that returned, with its result
  prev,        \* history: the call before it
  data,        \* the dict load_data returned, which the batch updates and save_data writes
  exported,    \* history: the mapping save_data last wrote, while the file is still that one
  nops         \* number of calls made so far


VARIABLES
  spc,            \* where run_single_game_with_precaching stands
  qi,             \* its loop index i
  precached,      \* precached_data: question id -> {"hash", "name"}
  fetchLog,       \* history: what each precache fetch returned
  question,       \* the question being answered
  turn,           \* how the guess for it was resolved
  total_guesses,  \* game_stats["total_guesses"]
  pcall           \* history: the arguments of the precache call

VARIABLES
  total_score,     \* game_stats["total_score"]
  correct_guesses, \* game_stats["correct_guesses"]
  asked,           \* history: the get_next_question calls of the session so far
  event,           \* history: what the last pass of the session's loop logged
  batch,           \* run_optimized_sequence: where it stands, total_stats, its result
  calls,           \* the CacheManager.set calls in progress, one per thread
  stage            \* precache_images_for_game: its loop, the fetches issued and resolved

VARIABLES
  served,         \* the remote: the id of the next question it will serve
  runs,           \* two runs of run_optimized_sequence: where each stands, its data
  script          \* main.main: where it stands, its hash_name_map

VARIABLES
  guessCall       \* make_api_guess: its arguments, the requests made so far, its result

VARIABLES
  upload,         \* history: the last upload_data request, the file it found, its answer
  backup          \* the backup file the last renaming upload_data request left on disk

VARIABLES
  rebuild         \* _create_indexes: the associations still to index, the next command

storeVars ==
  <<redisUp, diskOk, phase, connected, redis, jsonFile, data, last, prev, exported, nops>>
lateVars == <<served, runs, script>>
runVars == <<total_score, correct_guesses, asked, event, batch, calls, stage, lateVars>>
gameVars == <<spc, qi, precached, fetchLog, question, turn, total_guesses, pcall, runVars>>
apiVars == <<guessCall, upload, backup, rebuild>>
vars == <<storeVars, gameVars, apiVars>>

\* ------------------------------------------------------------------ Redis
AllNames == Names \cup {EmptyStr}
EmptyRedis ==
  [hash |-> [h \in Hashes |-> NoName],
   name |-> [n \in AllNames |-> {}],
   letter |-> [l \in Letters \cup {EmptyStr} |-> {}]]

\* The MULTI/EXEC pipeline of CacheManager.set and _load_from_json for one
\* association: SET hash:<h>, SADD name:<n>, SADD index:letter:<first letter>.
RedisLearnPrimaryOnly(r, h, n) == [r EXCEPT !.hash[h] = n]
RedisLearn(r, h, n) ==
  [r EXCEPT !.hash[h] = n,
            !.name[n] = @ \cup {h},
            !.letter[FirstLetter(n)] = @ \cup {n}]

\* ------------------------------------------------------------------ CacheManager
\* The CacheManager object together with the two backends it writes.
CM == [connected |-> connected, redis |-> redis, file |-> jsonFile]

\* _connect / _ensure_connection: ping when not yet connected.
EnsureConnection(cm) == [cm EXCEPT !.connected = cm.connected \/ redisUp]

\* CacheManager.get: None when Redis cannot be reached.
Get(cm, h) ==
  IF ~EnsureConnection(cm).connected \/ ~redisUp THEN NoName
  ELSE cm.redis.hash[h]

\* CacheManager.get_all: the hash:* keys with a truthy value.
GetAll(cm) ==
  IF ~EnsureConnection(cm).connected \/ ~redisUp THEN EmptyDict
  ELSE [h \in {k \in Hashes : Truthy(cm.redis.hash[k])} |-> cm.redis.hash[h]]

\* The client is built with decode_responses=True, so SMEMBERS yields str
\* objects, and str has no decode method.
StrHasDecode == FALSE

\* CacheManager.search_by_name: [h.decode('utf-8') for h in smembers(...)];
\* any exception (AttributeError on the first member, a connection error)
\* is caught and [] returned.
SearchByName(cm, name) ==
  LET members == cm.redis.name[name]
  IN IF ~redisUp THEN {}
     ELSE IF members # {} /\ ~StrHasDecode THEN {}
     ELSE members

\* A set that writes the file and leaves Redis alone.
CacheSetFileOnly(cm, h, n) ==
  LET c1 == EnsureConnection(cm)
  IN IF ~c1.connected \/ ~redisUp THEN [cm |-> c1, ret |-> FALSE]
     ELSE [cm |-> [c1 EXCEPT !.file = UpdateJsonFile(c1.file, h, n)], ret |-> TRUE]

\* CacheManager.set.
CacheSet(cm, h, n) ==
  LET c1 == EnsureConnection(cm)
  IN IF ~c1.connected \/ ~redisUp THEN [cm |-> c1, ret |-> FALSE]
     ELSE [cm |-> [c1 EXCEPT !.redis = RedisLearn(c1.redis, h, n),
                             !.file = UpdateJsonFile(c1.file, h, n)],
           ret |-> TRUE]

\* A run of pipeline commands over the pairs of a JSON object, in file order.
RECURSIVE RedisLearnAll(_, _)
RedisLearnAll(r, items) ==
  IF items = <<>> THEN r
  ELSE RedisLearnAll(RedisLearn(r, items[1][1], items[1][2]), Tail(items))

\* CacheManager._load_from_json: json.load raises on a file that is not
\* JSON, and data.items() raises AttributeError on an array, before
\* pipe.execute(); the exception is caught and logged.
LoadFromJson(cm) ==
  IF cm.file.kind = "absent" \/ cm.file \in NotJson THEN cm
  ELSE LET c1 == EnsureConnection(cm)
       IN IF ~c1.connected \/ ~redisUp THEN c1
          ELSE IF cm.file.kind = "map"
               THEN [c1 EXCEPT !.redis = RedisLearnAll(c1.redis, cm.file.items)]
               ELSE c1

\* The pairs of a dict, in ascending key order (sorted(data.keys())).
RECURSIVE SortedPairs(_)
SortedPairs(d) ==
  IF DOMAIN d = {} THEN <<>>
  ELSE LET k == CHOOSE x \in DOMAIN d : \A y \in DOMAIN d : x <= y
       IN <<<<k, d[k]>>>> \o SortedPairs([h \in DOMAIN d \ {k} |-> d[h]])

\* CacheManager._create_indexes: re-index every association get_all returns.
CreateIndexes(cm) ==
  LET c1 == EnsureConnection(cm)
  IN IF ~redisUp THEN c1
     ELSE [c1 EXCEPT !.redis = RedisLearnAll(c1.redis, SortedPairs(GetAll(c1)))]

\* CacheManager.__init__: _load_from_json, _create_indexes, _connect.
NewCacheManager(file, db) ==
  LET c0 == [connected |-> FALSE, redis |-> db, file |-> file]
      c2 == CreateIndexes(LoadFromJson(c0))
  IN [c2 EXCEPT !.connected = redisUp]

\* ------------------------------------------------------------------ app.load_data / app.save_data
\* The legacy branch of load_data: every record with both fields goes into
\* data and into the cache, whatever data already holds.
RECURSIVE LoadList(_, _)
LoadList(acc, items) ==
  IF items = <<>> THEN acc
  ELSE LET r == items[1]
       IN IF r.hash # NoHash /\ r.name # NoName
          THEN LoadList([cm |-> CacheSet(acc.cm, r.hash, r.name).cm,
                         data |-> DictSet(acc.data, r.hash, r.name)], Tail(items))
          ELSE LoadList(acc, Tail(items))

\* The mapping branch of load_data: a file entry is taken only for a key
\* that data (the Redis content) does not hold.
RECURSIVE LoadMap(_, _)
LoadMap(acc, items) ==
  IF items = <<>> THEN acc
  ELSE LET p == items[1]
       IN IF p[1] \notin DOMAIN acc.data
          THEN LoadMap([cm |-> CacheSet(acc.cm, p[1], p[2]).cm,
                        data |-> DictSet(acc.data, p[1], p[2])], Tail(items))
          ELSE LoadMap(acc, Tail(items))

LoadData(cm) ==
  LET acc == [cm |-> EnsureConnection(cm), data |-> GetAll(cm)]
  IN CASE cm.file.kind = "list" -> LoadList(acc, cm.file.items)
       [] cm.file.kind = "map" -> LoadMap(acc, cm.file.items)
       [] OTHER -> acc

RECURSIVE SetAll(_, _)
SetAll(cm, items) ==
  IF items = <<>> THEN cm
  ELSE SetAll(CacheSet(cm, items[1][1], items[1][2]).cm, Tail(items))

\* app.save_data: cache_manager.set for every pair in key order, then the
\* whole file is rewritten as the key-sorted mapping (an OSError of open is
\* caught and logged).
SaveDataKeepFile(cm, d) == SetAll(cm, SortedPairs(d))
SaveData(cm, d) ==
  [SetAll(cm, SortedPairs(d)) EXCEPT !.file = IF diskOk THEN MapFile(SortedPairs(d)) ELSE @]

\* ------------------------------------------------------------------ the game: data
QuestionsPerGame == 10
NoId == 0

\* A candidate suggestion {"id", "value"}.
Sug(id, value) == [id |-> id, value |-> value]
CandidateLists ==
  { <<Sug(1, Bob), Sug(2, AnaLower)>>,
    <<Sug(2, Ana), Sug(1, Bob)>>,
    <<Sug(1, Bob)>> }

\* A question with an id and suggestions, as get_next_question returns it;
\* hasImage says whether "imageUrl" or "pictureUrl" holds a locator.
Question(id, hasImage, sugs) == [id |-> id, hasImage |-> hasImage, suggestions |-> sugs]
NoQuestion == [id |-> NoId, hasImage |-> FALSE, suggestions |-> <<>>]

\* The picture the remote shows for a question id (two pictures alternate):
\* the same bytes, hence the same digest, whichever URL serves it.
PictureOf(q) == IF q % 2 = 1 THEN 1 ELSE 2

EmptyTable == [q \in {} |-> [hash |-> NoHash, name |-> NoName]]
NoTurn == [miss |-> FALSE, fetch |-> "none", hash |-> NoHash, name |-> NoName, guess |-> NoId]

NoPrecache == [start |-> WindowStart, count |-> 0]

\* make_api_guess has not been called.
NoGuessCall ==
  [pc |-> "idle", question_id |-> NoId, suggestion_id |-> NoId, tried |-> <<>>,
   result |-> "none"]
NoUpload == [content |-> NoFile, before |-> NoFile, status |-> 0]
NoRebuild == [todo |-> <<>>, step |-> "idle"]
ApiIdle ==
  /\ guessCall = NoGuessCall
  /\ upload = NoUpload
  /\ backup = NoFile
  /\ rebuild = NoRebuild

\* One pass of the session's loop, as its log lines tell it: what
\* get_next_question gave ("none", "invalid", "question"), what became of the
\* guess ("failed": make_api_guess returned None, "verdict", "no_suggestion"),
\* the correctSuggestionId of a verdict and the name it resolved to, and the
\* association cache_manager.set was called with, if it was.
Event(answer, guess, cid, correct, h, n) ==
  [answer |-> answer, guess |-> guess, cid |-> cid, correct |-> correct,
   hash |-> h, name |-> n]
NoEvent == Event("", "", NoId, EmptyStr, NoHash, NoName)

\* run_optimized_sequence before it is called.  result: "" while it runs,
\* "stats" when it returned total_stats, "error" when it returned
\* {"error", "logs"}.  writes counts the times faces_data.json was opened for
\* writing since the call began.
\* errors counts the "Erreur lors de la partie" lines of the log, started the
\* calls of run_single_game_with_precaching.
NoBatch ==
  [pc |-> "idle", total_games |-> 0, game_num |-> 0, start_question_id |-> NoId,
   games_attempted |-> 0, games_completed |-> 0, total_score |-> 0,
   correct_guesses |-> 0, total_guesses |-> 0, best_game_score |-> 0,
   best_game_index |-> -1, all_game_scores |-> <<>>, completed |-> <<>>,
   errors |-> 0, started |-> 0, writes |-> 0, result |-> ""]

\* The threads that may be inside CacheManager.set at once.
Threads == {1, 2}

\* A run of run_optimized_sequence before it is called.  learned: history,
\* the fingerprints for which cache_manager.set returned True in this run.
NoRun == [pc |-> "idle", data |-> EmptyDict, learned |-> {}]

\* main.main before it is called.  i: the iterations of its loop so far.
NoScript == [pc |-> "idle", i |-> 0, hash_name_map |-> <<>>]

\* A thread's CacheManager.set call: where it stands ("idle" before the call,
\* "called", "executed" after pipe.execute(), "read" after json.load,
\* "writing" between open(..., 'w') and the close that flushes json.dump,
\* "returned"), its arguments, the file _update_json_file read, its rank in
\* the order of the calls, and whether another thread has flushed its own
\* content into the file since this one opened it, and what it returned.
NoSetCall ==
  [pc |-> "idle", h |-> NoHash, n |-> NoName, seen |-> NoFile, rank |-> 0,
   overlaid |-> FALSE, ret |-> FALSE]

\* precache_images_for_game before it is called.
NoStage ==
  [pc |-> "idle", start |-> WindowStart, count |-> 0, i |-> 0, issued |-> 0,
   resolved |-> 0, failed |-> 0, cached |-> EmptyTable]

GameIdle ==
  /\ spc = "idle"
  /\ qi = 0
  /\ precached = EmptyTable
  /\ fetchLog = EmptyDict
  /\ question = NoQuestion
  /\ turn = NoTurn
  /\ total_guesses = 0
  /\ pcall = NoPrecache
  /\ total_score = 0
  /\ correct_guesses = 0
  /\ asked = 0
  /\ event = NoEvent
  /\ batch = NoBatch
  /\ calls = [t \in Threads |-> NoSetCall]
  /\ stage = NoStage
  /\ served = WindowStart
  /\ runs = [r \in Threads |-> NoRun]
  /\ script = NoScript

\* ------------------------------------------------------------------ store actions
\* A call record: its arguments, its result, the legacy records it found in
\* the durable file (<<>> when the file was not a legacy list), and whether
\* Redis answered and the file was writable during the call.
LegacyOf(f) == IF f.kind = "list" THEN f.items ELSE <<>>
Call(op, h, n, ret, d) ==
  [op |-> op, h |-> h, n |-> n, ret |-> ret, data |-> d, legacy |-> LegacyOf(jsonFile),
   up |-> redisUp, disk |-> diskOk]
NoCall ==
  [op |-> "none", h |-> NoHash, n |-> NoName, ret |-> FALSE, data |-> EmptyDict,
   legacy |-> <<>>, up |-> TRUE, disk |-> TRUE]
Brief(c) == [op |-> c.op, h |-> c.h, n |-> c.n]
NoExport == [valid |-> FALSE, map |-> EmptyDict]

Rec(h, n) == [hash |-> h, name |-> n]
InitialFiles ==
  { NoFile,
    MapFile(<<<<2, Bob>>, <<1, Ana>>>>),
    ListFile(<<Rec(1, Ana)>>),
    ListFile(<<Rec(2, Bob), Rec(NoHash, Ana), Rec(1, NoName)>>) }

StoreInit ==
  /\ redisUp = TRUE
  /\ diskOk = TRUE
  /\ phase = "off"
  /\ connected = FALSE
  /\ redis = EmptyRedis
  /\ jsonFile \in InitialFiles
  /\ data = EmptyDict
  /\ last = NoCall
  /\ prev = Brief(NoCall)
  /\ exported = NoExport
  /\ nops = 0
  /\ GameIdle
  /\ ApiIdle

Returned(c, call) ==
  /\ connected' = c.connected
  /\ redis' = c.redis
  /\ jsonFile' = c.file
  /\ prev' = Brief(last)
  /\ last' = call
  /\ exported' = IF call.op = "save_data" THEN [valid |-> TRUE, map |-> call.data]
                 ELSE IF c.file = jsonFile THEN exported ELSE NoExport
  /\ nops' = nops + 1
  /\ UNCHANGED <<redisUp, diskOk, gameVars, guessCall>>

\* A call of the store that is neither an upload nor part of a rebuild.
Done(c, call) ==
  /\ Returned(c, call)
  /\ UNCHANGED <<upload, backup, rebuild>>

\* The process starts: cache_manager = CacheManager().
Construct ==
  /\ phase = "off" /\ nops < MaxOps
  /\ phase' = "ready"
  /\ Done(NewCacheManager(jsonFile, redis), Call("construct", NoHash, NoName, TRUE, EmptyDict))
  /\ UNCHANGED data

\* The process exits, wherever it stands; Redis and the file stay.
Stop ==
  /\ phase # "off" /\ nops < MaxOps
  /\ phase' = "off"
  /\ data' = EmptyDict
  /\ Returned([CM EXCEPT !.connected = FALSE], Call("stop", NoHash, NoName, TRUE, EmptyDict))
  /\ rebuild' = NoRebuild
  /\ UNCHANGED <<upload, backup>>

\* A batch begins: data = load_data().
DoLoadData ==
  /\ phase # "off" /\ nops < MaxOps
  /\ phase' = "loaded"
  /\ LET r == LoadData(CM)
     IN /\ Done(r.cm, Call("load_data", NoHash, NoName, TRUE, r.data))
        /\ data' = r.data

\* learn, as the game loop does it: data[h] = n; cache_manager.set(h, n).
Learn(h, n) ==
  /\ phase = "loaded" /\ nops < MaxOps
  /\ LET r == CacheSet(CM, h, n)
     IN Done(r.cm, Call("set", h, n, r.ret, EmptyDict))
  /\ data' = DictSet(data, h, n)
  /\ UNCHANGED phase

\* The batch ends: save_data(data).
DoSaveData ==
  /\ phase = "loaded" /\ nops < MaxOps
  /\ Done(SaveData(CM, data), Call("save_data", NoHash, NoName, TRUE, data))
  /\ UNCHANGED <<phase, data>>

\* CacheManager.clear: FLUSHDB.
Clear ==
  /\ phase # "off" /\ nops < MaxOps
  /\ LET c1 == EnsureConnection(CM)
     IN Done(IF redisUp THEN [c1 EXCEPT !.redis = EmptyRedis] ELSE c1,
                 Call("clear", NoHash, NoName, redisUp, EmptyDict))
  /\ UNCHANGED <<phase, data>>

StoreNext ==
  \/ Construct
  \/ Stop
  \/ DoLoadData
  \/ \E h \in Hashes, n \in Names : Learn(h, n)
  \/ DoSaveData
  \/ Clear

Spec == StoreInit /\ [][StoreNext]_vars

\* ------------------------------------------------------------------ the store without Redis
\* The Redis server stops answering (connection refused, timeout) ...
RedisFails ==
  /\ redisUp
  /\ redisUp' = FALSE
  /\ UNCHANGED <<diskOk, phase, connected, redis, jsonFile, data, last, prev, exported, nops>>
  /\ UNCHANGED <<gameVars, apiVars>>

\* ... and answers again, with the database it had.
RedisRecovers ==
  /\ ~redisUp
  /\ redisUp' = TRUE
  /\ UNCHANGED <<diskOk, phase, connected, redis, jsonFile, data, last, prev, exported, nops>>
  /\ UNCHANGED <<gameVars, apiVars>>

OutageNext ==
  \/ StoreNext
  \/ RedisFails
  \/ RedisRecovers

OutageSpec == StoreInit /\ [][OutageNext]_vars

\* ------------------------------------------------------------------ the store with a read-only file
\* faces_data.json can no longer be opened for writing (permissions,
\* read-only file system) ...
DiskFails ==
  /\ diskOk
  /\ diskOk' = FALSE
  /\ UNCHANGED <<redisUp, phase, connected, redis, jsonFile, data, last, prev, exported, nops>>
  /\ UNCHANGED <<gameVars, apiVars>>

\* ... and can again.
DiskRecovers ==
  /\ ~diskOk
  /\ diskOk' = TRUE
  /\ UNCHANGED <<redisUp, phase, connected, redis, jsonFile, data, last, prev, exported, nops>>
  /\ UNCHANGED <<gameVars, apiVars>>

DiskFaultNext ==
  \/ StoreNext
  \/ DiskFails
  \/ DiskRecovers

DiskFaultSpec == StoreInit /\ [][DiskFaultNext]_vars

\* ------------------------------------------------------------------ the store, one Redis command at a time
\* CacheManager.__init__ up to the loop of _create_indexes: _load_from_json
\* runs its pipeline (one MULTI/EXEC), then get_all reads the associations
\* to index.
BeginConstruct ==
  /\ phase = "off" /\ nops < MaxOps
  /\ phase' = "indexing"
  /\ LET c0 == [connected |-> FALSE, redis |-> redis, file |-> jsonFile]
         c1 == EnsureConnection(LoadFromJson(c0))
     IN /\ Returned(c1, Call("construct", NoHash, NoName, TRUE, EmptyDict))
        /\ rebuild' = [todo |-> SortedPairs(GetAll(c1)), step |-> "set"]
  /\ UNCHANGED <<data, upload, backup>>

IndexStepVars == <<redisUp, diskOk, connected, jsonFile, data, last, prev, exported, nops>>

\* redis_client.set(hash:<h>, name) for the next association.
IndexSet ==
  /\ phase = "indexing" /\ rebuild.step = "set" /\ rebuild.todo # <<>>
  /\ redis' = [redis EXCEPT !.hash[rebuild.todo[1][1]] = rebuild.todo[1][2]]
  /\ rebuild' = [rebuild EXCEPT !.step = "sadd_name"]
  /\ UNCHANGED <<phase, IndexStepVars, gameVars, guessCall, upload, backup>>

\* redis_client.sadd(name:<name>, h).
IndexSaddName ==
  /\ phase = "indexing" /\ rebuild.step = "sadd_name"
  /\ redis' = [redis EXCEPT !.name[rebuild.todo[1][2]] = @ \cup {rebuild.todo[1][1]}]
  /\ rebuild' = [rebuild EXCEPT !.step = "sadd_letter"]
  /\ UNCHANGED <<phase, IndexStepVars, gameVars, guessCall, upload, backup>>

\* redis_client.sadd(index:letter:<first letter>, name), and on to the next
\* association.
IndexSaddLetter ==
  /\ phase = "indexing" /\ rebuild.step = "sadd_letter"
  /\ redis' = [redis EXCEPT !.letter[FirstLetter(rebuild.todo[1][2])] =
                              @ \cup {rebuild.todo[1][2]}]
  /\ rebuild' = [todo |-> Tail(rebuild.todo), step |-> "set"]
  /\ UNCHANGED <<phase, IndexStepVars, gameVars, guessCall, upload, backup>>

\* The loop is over; _connect; the object is constructed.
EndConstruct ==
  /\ phase = "indexing" /\ rebuild.step = "set" /\ rebuild.todo = <<>>
  /\ phase' = "ready"
  /\ rebuild' = NoRebuild
  /\ UNCHANGED <<redis, IndexStepVars, gameVars, guessCall, upload, backup>>

\* The operations of one process, one after the other; the process may be
\* stopped in the middle of _create_indexes.
IndexNext ==
  \/ BeginConstruct
  \/ IndexSet
  \/ IndexSaddName
  \/ IndexSaddLetter
  \/ EndConstruct
  \/ Stop
  \/ (phase # "indexing" /\ DoLoadData)
  \/ \E h \in Hashes, n \in Names : Learn(h, n)
  \/ DoSaveData
  \/ (phase # "indexing" /\ Clear)

IndexSpec == StoreInit /\ [][IndexNext]_vars

\* ------------------------------------------------------------------ upload_data
\* The conversion of an uploaded array to the mapping format: new_data[hash]
\* = name for every record with both fields, in dict order.
RECURSIVE ListToPairs(_, _)
ListToPairs(items, acc) ==
  IF items = <<>> THEN acc
  ELSE LET r == items[1]
       IN ListToPairs(Tail(items),
            IF r.hash # NoHash /\ r.name # NoName THEN PairsPut(acc, r.hash, r.name) ELSE acc)

\* The files a client uploads (all named *.json).
Uploads ==
  { CorruptFile,
    UndecodableFile,
    MapFile(<<<<1, Bob>>>>),
    ListFile(<<Rec(2, Ana), Rec(NoHash, Bob)>>) }

\* What upload_data leaves as faces_data.json and as backup file, with the
\* status of its answer.  An existing file is renamed to the backup and the
\* upload saved in its place; an array is rewritten as a mapping.  On
\* JSONDecodeError the backup is renamed back if this request made one;
\* otherwise backup_filename is unbound, the UnboundLocalError reaches the
\* outer handler (500) and the uploaded file stays.  UnicodeDecodeError is
\* not a JSONDecodeError: it reaches the outer handler directly.
UploadData(content, file, bak) ==
  LET existed == file.kind # "absent"
      moved == IF existed THEN file ELSE bak
  IN CASE content.kind = "map" -> [file |-> content, backup |-> moved, status |-> 200]
       [] content.kind = "list" ->
            [file |-> MapFile(ListToPairs(content.items, <<>>)), backup |-> moved,
             status |-> 200]
       [] content.kind = "undecodable" -> [file |-> content, backup |-> moved, status |-> 500]
       [] existed -> [file |-> file, backup |-> NoFile, status |-> 400]
       [] OTHER -> [file |-> content, backup |-> bak, status |-> 500]

\* POST /upload_data with a file.
Upload(content) ==
  /\ phase # "off" /\ nops < MaxOps
  /\ LET r == UploadData(content, jsonFile, backup)
     IN /\ Returned([CM EXCEPT !.file = r.file],
                     Call("upload", NoHash, NoName, r.status = 200, EmptyDict))
        /\ upload' = [content |-> content, before |-> jsonFile, status |-> r.status]
        /\ backup' = r.backup
  /\ UNCHANGED <<phase, data, rebuild>>

UploadNext ==
  \/ StoreNext
  \/ \E content \in Uploads : Upload(content)

UploadSpec == StoreInit /\ [][UploadNext]_vars

\* ------------------------------------------------------------------ the game: precaching
Window == WindowStart..(WindowStart + QuestionsPerGame - 1)

\* precache_images_for_game: for i in range(num_questions), fetch the picture
\* of question start + i; a failed fetch (None) is logged and skipped, a
\* digest is stored with data's name for it.  `fetched` is what
\* get_image_hash_with_game_id returns for each id.  Returns the table and
\* the log of the fetches made.
RECURSIVE PrecacheStopAtFailure(_, _, _, _, _, _)
PrecacheStopAtFailure(i, n, start, fetched, d, acc) ==
  IF i >= n THEN acc
  ELSE LET q == start + i
           h == fetched[q]
           log == (q :> h) @@ acc.log
       IN IF h = NoHash THEN [cached |-> acc.cached, log |-> log]
          ELSE PrecacheStopAtFailure(i + 1, n, start, fetched, d,
                 [cached |-> (q :> [hash |-> h, name |-> DictGet(d, h)]) @@ acc.cached,
                  log |-> log])

RECURSIVE PrecacheLoop(_, _, _, _, _, _)
PrecacheLoop(i, n, start, fetched, d, acc) ==
  IF i >= n THEN acc
  ELSE LET q == start + i
           h == fetched[q]
           log == (q :> h) @@ acc.log
       IN IF h = NoHash
          THEN PrecacheLoop(i + 1, n, start, fetched, d, [cached |-> acc.cached, log |-> log])
          ELSE PrecacheLoop(i + 1, n, start, fetched, d,
                 [cached |-> (q :> [hash |-> h, name |-> DictGet(d, h)]) @@ acc.cached,
                  log |-> log])

PrecacheImagesForGame(start, n, fetched, d) ==
  PrecacheLoop(0, n, start, fetched, d, [cached |-> EmptyTable, log |-> EmptyDict])

\* ------------------------------------------------------------------ the game: resolving a guess
\* The id of the first suggestion whose value equals name ignoring case.
RECURSIVE FirstMatchExact(_, _)
FirstMatchExact(sugs, name) ==
  IF sugs = <<>> THEN NoId
  ELSE IF sugs[1].value = name THEN sugs[1].id
  ELSE FirstMatchExact(Tail(sugs), name)

RECURSIVE FirstMatch(_, _)
FirstMatch(sugs, name) ==
  IF sugs = <<>> THEN NoId
  ELSE IF Lower(sugs[1].value) = Lower(name) THEN sugs[1].id
  ELSE FirstMatch(Tail(sugs), name)

\* "Si aucune correspondance, utiliser la premiere suggestion".
FirstOrKeepNone(sid, sugs) == sid
FirstOr(sid, sugs) == IF sid = NoId /\ sugs # <<>> THEN sugs[1].id ELSE sid

\* The loop body of run_single_game_with_precaching from the table lookup to
\* the choice of suggestion_id.  `fetched` is what the on-demand
\* get_image_hash returns if it is called ("none": not called).
ResolveGuessTableOnly(q, table, d, fetched) ==
  LET hit == q.id \in DOMAIN table
      entry == IF hit THEN table[q.id] ELSE [hash |-> NoHash, name |-> NoName]
      name == IF hit /\ Truthy(entry.name) THEN entry.name ELSE NoName
      sid == IF name # NoName THEN FirstMatch(q.suggestions, name) ELSE NoId
  IN [miss |-> ~hit, fetch |-> "none", hash |-> NoHash, name |-> name,
      guess |-> FirstOr(sid, q.suggestions)]

ResolveGuess(q, table, d, fetched) ==
  LET hit == q.id \in DOMAIN table
      entry == IF hit THEN table[q.id] ELSE [hash |-> NoHash, name |-> NoName]
      onDemand == ~hit /\ q.hasImage
      hash == IF onDemand THEN fetched ELSE NoHash
      name == IF hit /\ Truthy(entry.name) THEN entry.name
              ELSE IF onDemand /\ hash # NoHash /\ hash \in DOMAIN d THEN d[hash]
              ELSE NoName
      sid == IF name # NoName THEN FirstMatch(q.suggestions, name) ELSE NoId
  IN [miss |-> ~hit,
      fetch |-> IF ~onDemand THEN "none" ELSE IF hash = NoHash THEN "failed" ELSE "ok",
      hash |-> hash,
      name |-> name,
      guess |-> FirstOr(sid, q.suggestions)]

\* The display name of the suggestion whose id is correct_id, '' if none.
RECURSIVE CorrectName(_, _)
CorrectName(sugs, cid) ==
  IF cid = NoId \/ sugs = <<>> THEN EmptyStr
  ELSE IF sugs[1].id = cid THEN sugs[1].value
  ELSE CorrectName(Tail(sugs), cid)

\* ------------------------------------------------------------------ the game: actions
GameFiles ==
  { NoFile,
    MapFile(<<<<1, Ana>>>>),
    MapFile(<<<<1, AnaLower>>, <<2, Bob>>>>) }

\* The process is up and a batch has loaded its data.
GameInit ==
  /\ redisUp = TRUE
  /\ diskOk = TRUE
  /\ phase = "loaded"
  /\ \E f \in GameFiles :
       LET r == LoadData(NewCacheManager(f, EmptyRedis))
       IN /\ connected = r.cm.connected
          /\ redis = r.cm.redis
          /\ jsonFile = r.cm.file
          /\ data = r.data
  /\ last = NoCall
  /\ prev = Brief(NoCall)
  /\ exported = NoExport
  /\ nops = 0
  /\ GameIdle
  /\ ApiIdle

historyVars == <<redisUp, diskOk, phase, last, prev, exported, nops, apiVars>>

\* What get_image_hash_with_game_id returns for each id of a window when the
\* fetches of `fails` fail.
Fetched(start, n, fails) ==
  [q \in start..(start + n - 1) |-> IF q \in fails THEN NoHash ELSE PictureOf(q)]

\* precache_images_for_game(game_id, start, n, headers, data).
Precache(start, n, fails) ==
  /\ spc = "idle"
  /\ fails \subseteq start..(start + n - 1)
  /\ LET r == PrecacheImagesForGame(start, n, Fetched(start, n, fails), data)
     IN /\ precached' = r.cached
        /\ fetchLog' = r.log
  /\ pcall' = [start |-> start, count |-> n]

\* A precaching batch on its own, over n question ids.
PrecacheOnly(n, fails) ==
  /\ Cardinality(fails) <= MaxFetchFailures
  /\ Precache(WindowStart, n, fails)
  /\ spc' = "precached"
  /\ UNCHANGED <<qi, question, turn, total_guesses>>
  /\ UNCHANGED <<connected, redis, jsonFile, data, historyVars>>

PrecacheNext ==
  \E n \in 0..QuestionsPerGame, fails \in SUBSET Window :
    PrecacheOnly(n, fails) /\ UNCHANGED runVars

PrecacheSpec == GameInit /\ [][PrecacheNext]_vars

\* POST /games answered with something else than 200, or without a game id.
StartGameFails ==
  /\ spc = "idle"
  /\ spc' = "error"
  /\ UNCHANGED <<qi, precached, fetchLog, question, turn, total_guesses, pcall>>
  /\ UNCHANGED <<connected, redis, jsonFile, data, historyVars>>

\* The precache fetches that fail in a game.
GameFailSets ==
  { {}, {WindowStart + 2}, {WindowStart, WindowStart + QuestionsPerGame - 1} }

\* The game is created and its ten pictures are precached.
StartGameAt(start, fails) ==
  /\ Precache(start, QuestionsPerGame, fails)
  /\ spc' = "asking"
  /\ UNCHANGED <<qi, question, turn, total_guesses>>
  /\ UNCHANGED <<connected, redis, jsonFile, data, historyVars>>

StartGame(fails) == StartGameAt(WindowStart, fails)

\* A loop body that ends with break.
NextIterationBreak ==
  /\ qi' = qi + 1
  /\ spc' = "done"

\* A loop that runs once more than range(10).
NextIterationOneMore ==
  /\ qi' = qi + 1
  /\ spc' = IF qi + 1 >= QuestionsPerGame + 1 THEN "done" ELSE "asking"

\* The loop body is over: the next i of range(10), if any.
NextIteration ==
  /\ qi' = qi + 1
  /\ spc' = IF qi + 1 >= QuestionsPerGame THEN "done" ELSE "asking"

\* get_next_question returned None: break.
AskNone ==
  /\ spc = "asking"
  /\ spc' = "done"
  /\ UNCHANGED <<qi, precached, fetchLog, question, turn, total_guesses, pcall>>
  /\ UNCHANGED <<connected, redis, jsonFile, data, historyVars>>

\* A question arrives and the guess for it is resolved.  fetchOk: the
\* on-demand get_image_hash, if called, returns the digest.
AskQuestion(q, fetchOk) ==
  /\ spc = "asking"
  /\ q.id # NoId /\ q.suggestions # <<>>
  /\ (q.id \in DOMAIN precached \/ ~q.hasImage) => fetchOk
  /\ question' = q
  /\ turn' = ResolveGuess(q, precached, data, IF fetchOk THEN PictureOf(q.id) ELSE NoHash)
  /\ spc' = "guessing"
  /\ UNCHANGED <<qi, precached, fetchLog, total_guesses, pcall>>
  /\ UNCHANGED <<connected, redis, jsonFile, data, historyVars>>

\* A loop body that learns the name of the suggestion it guessed.
LearningGuessed(ok, cid) ==
  LET name == CorrectName(question.suggestions, turn.guess)
      hit == question.id \in DOMAIN precached
  IN IF turn.guess # NoId /\ ok /\ hit /\ name # EmptyStr
     THEN [hash |-> precached[question.id].hash, name |-> name]
     ELSE [hash |-> NoHash, name |-> NoName]

\* The association the loop body learns from what make_api_guess returned: the
\* precache entry's digest with the display name of the correct suggestion,
\* when there was a guess, a verdict, an entry and a name; NoHash otherwise.
Learning(ok, cid) ==
  LET name == CorrectName(question.suggestions, cid)
      hit == question.id \in DOMAIN precached
  IN IF turn.guess # NoId /\ ok /\ hit /\ name # EmptyStr
     THEN [hash |-> precached[question.id].hash, name |-> name]
     ELSE [hash |-> NoHash, name |-> NoName]

\* The rest of the loop body: the guess is submitted, if there is one; on a
\* verdict the correct name is learned for the precached digest.
\* ok = FALSE: make_api_guess returned None.  cid: correctSuggestionId.
SubmitGuess(ok, cid) ==
  /\ spc = "guessing"
  /\ ~ok => cid = NoId
  /\ LET guessed == turn.guess # NoId
         learning == Learning(ok, cid)
         learns == learning.hash # NoHash
         c == IF learns THEN CacheSet(CM, learning.hash, learning.name).cm ELSE CM
     IN /\ total_guesses' = IF guessed THEN total_guesses + 1 ELSE total_guesses
        /\ data' = IF learns THEN DictSet(data, learning.hash, learning.name) ELSE data
        /\ connected' = c.connected
        /\ redis' = c.redis
        /\ jsonFile' = c.file
  /\ NextIteration
  /\ question' = NoQuestion
  /\ turn' = NoTurn
  /\ UNCHANGED <<precached, fetchLog, pcall, historyVars>>

\* The questions the remote may serve at iteration qi: the id the window
\* expects, or one outside the window.
Questions ==
  { Question(id, img, sugs) :
      id \in {WindowStart + qi, WindowStart + qi + QuestionsPerGame},
      img \in BOOLEAN, sugs \in CandidateLists }

GameNext ==
  \/ StartGameFails /\ UNCHANGED runVars
  \/ \E fails \in GameFailSets : StartGame(fails) /\ UNCHANGED runVars
  \/ AskNone /\ UNCHANGED runVars
  \/ \E q \in Questions, fetchOk \in BOOLEAN : AskQuestion(q, fetchOk) /\ UNCHANGED runVars
  \/ \E ok \in BOOLEAN, cid \in {NoId, 1, 2} : SubmitGuess(ok, cid) /\ UNCHANGED runVars

GameSpec == GameInit /\ [][GameNext]_vars

\* ------------------------------------------------------------------ the session, with its statistics
\* A loop that leaves at a question of unrecognised shape.
AskInvalidBreak(q) ==
  /\ spc = "asking"
  /\ q.id = NoId \/ q.suggestions = <<>>
  /\ spc' = "done"
  /\ UNCHANGED <<qi, precached, fetchLog, question, turn, total_guesses, pcall>>
  /\ UNCHANGED <<connected, redis, jsonFile, data, historyVars>>

\* get_next_question returned a question without an id or without
\* suggestions: "Format de question invalide, passage a la suivante", continue.
AskInvalid(q) ==
  /\ spc = "asking"
  /\ q.id = NoId \/ q.suggestions = <<>>
  /\ NextIteration
  /\ UNCHANGED <<precached, fetchLog, question, turn, total_guesses, pcall>>
  /\ UNCHANGED <<connected, redis, jsonFile, data, historyVars>>

\* The shapes of a question the loop rejects.
InvalidQuestions ==
  { Question(NoId, TRUE, <<Sug(1, Bob)>>), Question(pcall.start + qi, TRUE, <<>>) }

\* get_next_question raised (requests.post, or response.json() on a body that
\* is not JSON): the except clause of the session returns {"error", "logs"}.
AskRaises ==
  /\ spc = "asking"
  /\ spc' = "error"
  /\ UNCHANGED <<qi, precached, fetchLog, question, turn, total_guesses, pcall>>
  /\ UNCHANGED <<connected, redis, jsonFile, data, historyVars>>

SessionStartFails ==
  /\ StartGameFails
  /\ UNCHANGED <<total_score, correct_guesses, asked, event>>

SessionStart(start, fails) ==
  /\ StartGameAt(start, fails)
  /\ UNCHANGED <<total_score, correct_guesses, asked, event>>

SessionAskNone ==
  /\ AskNone
  /\ asked' = asked + 1
  /\ event' = Event("none", "", NoId, EmptyStr, NoHash, NoName)
  /\ UNCHANGED <<total_score, correct_guesses>>

SessionAskRaises ==
  /\ AskRaises
  /\ asked' = asked + 1
  /\ event' = Event("raised", "", NoId, EmptyStr, NoHash, NoName)
  /\ UNCHANGED <<total_score, correct_guesses>>

SessionAskInvalid(q) ==
  /\ AskInvalid(q)
  /\ asked' = asked + 1
  /\ event' = Event("invalid", "", NoId, EmptyStr, NoHash, NoName)
  /\ UNCHANGED <<total_score, correct_guesses>>

SessionAskQuestion(q, fetchOk) ==
  /\ AskQuestion(q, fetchOk)
  /\ asked' = asked + 1
  /\ event' = Event("question", "", NoId, EmptyStr, NoHash, NoName)
  /\ UNCHANGED <<total_score, correct_guesses>>

\* The scores a verdict may carry.
Scores == {0, 1}

\* The loop body from the guess on, with game_stats: a verdict adds its score,
\* and one more correct guess when its suggestionId (the guess, echoed) is its
\* correctSuggestionId; None adds nothing and is logged.
SessionSubmit(ok, cid, score) ==
  /\ SubmitGuess(ok, cid)
  /\ ~ok => score = 0
  /\ LET guessed == turn.guess # NoId
         verdict == guessed /\ ok
         learning == Learning(ok, cid)
     IN /\ total_score' = IF verdict THEN total_score + score ELSE total_score
        /\ correct_guesses' =
             IF verdict /\ turn.guess = cid THEN correct_guesses + 1 ELSE correct_guesses
        /\ event' = Event("question",
                          IF ~guessed THEN "no_suggestion"
                          ELSE IF ok THEN "verdict" ELSE "failed",
                          IF verdict THEN cid ELSE NoId,
                          IF verdict THEN CorrectName(question.suggestions, cid) ELSE EmptyStr,
                          learning.hash, learning.name)
  /\ UNCHANGED asked

\* The questions a session is served: the id the window expects, with or
\* without a picture locator (the table misses it when its precache fetch
\* failed).
SessionQuestions ==
  { Question(pcall.start + qi, img, <<Sug(1, Bob), Sug(2, Ana)>>) : img \in BOOLEAN }

\* The correctSuggestionId of a verdict on the current question: the
\* suggestion naming the person of the picture (picture 1 shows Bob, picture 2
\* Ana), none, or an id that no suggestion of the question carries.
UnknownId == 3
CorrectIds == {NoId, PictureOf(question.id), UnknownId}

offSession == <<batch, calls, stage, lateVars>>

SessionNext ==
  \/ SessionStartFails /\ UNCHANGED offSession
  \/ \E fails \in GameFailSets : SessionStart(WindowStart, fails) /\ UNCHANGED offSession
  \/ SessionAskNone /\ UNCHANGED offSession
  \/ SessionAskRaises /\ UNCHANGED offSession
  \/ \E q \in InvalidQuestions : SessionAskInvalid(q) /\ UNCHANGED offSession
  \/ \E q \in SessionQuestions, fetchOk \in BOOLEAN :
       SessionAskQuestion(q, fetchOk) /\ UNCHANGED offSession
  \/ \E ok \in BOOLEAN, cid \in CorrectIds, score \in Scores :
       SessionSubmit(ok, cid, score) /\ UNCHANGED offSession

SessionSpec == GameInit /\ [][SessionNext]_vars

\* ------------------------------------------------------------------ the batch
MaxGames == 2

\* What get_next_question gives the mock game: None, or a question with this
\* id (NoId: without one).
MockAnswer(none, id) == [none |-> none, id |-> id]

\* The loop of mock_game: None is skipped; the id of any other answer
\* replaces last_question_id, also when the answer has none.
RECURSIVE MockLoop(_, _)
MockLoop(answers, lastId) ==
  IF answers = <<>> THEN lastId
  ELSE IF answers[1].none THEN MockLoop(Tail(answers), lastId)
  ELSE MockLoop(Tail(answers), answers[1].id)

\* mock_game: None (NoId) when the game is not created or an exception is
\* caught, else the last_question_id its loop ends with.
MockGame(created, answers) == IF ~created THEN NoId ELSE MockLoop(answers, NoId)

\* The answers a mock game may get to its ten requests: the ten questions
\* before the window of the first real game, the same with the last request
\* unanswered, or with the last question without id, or nothing at all.
MockRuns ==
  LET good == [i \in 1..QuestionsPerGame |-> MockAnswer(FALSE, WindowStart + i - 1)]
  IN { good,
       [good EXCEPT ![QuestionsPerGame] = MockAnswer(TRUE, NoId)],
       [good EXCEPT ![QuestionsPerGame] = MockAnswer(FALSE, NoId)],
       [i \in 1..QuestionsPerGame |-> MockAnswer(TRUE, NoId)] }

\* Whether CacheManager.set gets to open faces_data.json for writing: it
\* returns before _update_json_file without Redis, and _update_json_file
\* raises before its open(..., 'w') on a file that is not a JSON object.
SetWrites(cm) ==
  IF (cm.connected \/ redisUp) /\ redisUp /\ cm.file.kind \in {"absent", "map"} THEN 1 ELSE 0

\* The times save_data opens faces_data.json for writing: once in every
\* cache_manager.set, and once for its own json.dump.
SaveDataWrites(cm, d) == Cardinality(DOMAIN d) * SetWrites(cm) + 1

\* The process is up; no batch runs.
BatchInit ==
  /\ redisUp = TRUE
  /\ diskOk = TRUE
  /\ phase = "ready"
  /\ \E f \in GameFiles :
       LET cm == NewCacheManager(f, EmptyRedis)
       IN /\ connected = cm.connected
          /\ redis = cm.redis
          /\ jsonFile = cm.file
  /\ data = EmptyDict
  /\ last = NoCall
  /\ prev = Brief(NoCall)
  /\ exported = NoExport
  /\ nops = 0
  /\ GameIdle
  /\ ApiIdle

batchHistory == <<redisUp, diskOk, last, prev, exported, nops, apiVars, calls, stage, runs, script>>
sessionVars ==
  <<spc, qi, precached, fetchLog, question, turn, total_guesses, pcall,
    total_score, correct_guesses, asked, event>>

\* run_optimized_sequence(headers, total_games) is called: headers that are
\* no dict are answered with {"error", "logs"}; else data = load_data() and
\* total_stats is set up.
BatchBegin(total_games, headersOk) ==
  /\ batch.pc = "idle"
  /\ IF ~headersOk
     THEN /\ batch' = [batch EXCEPT !.pc = "returned", !.total_games = total_games,
                                     !.result = "error"]
          /\ UNCHANGED <<phase, connected, redis, jsonFile, data>>
     ELSE LET r == LoadData(CM)
          IN /\ batch' = [batch EXCEPT !.pc = "mock", !.total_games = total_games,
                                        !.games_attempted = total_games]
             /\ phase' = "loaded"
             /\ connected' = r.cm.connected
             /\ redis' = r.cm.redis
             /\ jsonFile' = r.cm.file
             /\ data' = r.data
  /\ UNCHANGED <<sessionVars, batchHistory>>

\* The questions the remote served to a mock game.
MockServed(created, answers) ==
  IF created THEN Cardinality({i \in 1..Len(answers) : ~answers[i].none}) ELSE 0

\* The mock game ran: without a last question id the batch returns
\* {"error", "logs"}; else start_question_id = last_question_id + 1.
BatchMockGame(created, answers) ==
  /\ batch.pc = "mock"
  /\ served' = served + MockServed(created, answers)
  /\ LET last_question_id == MockGame(created, answers)
     IN batch' = IF last_question_id = NoId
                 THEN [batch EXCEPT !.pc = "returned", !.result = "error"]
                 ELSE [batch EXCEPT !.pc = "loop",
                                    !.start_question_id = last_question_id + 1]
  /\ UNCHANGED <<phase, connected, redis, jsonFile, data, sessionVars, batchHistory>>

\* The first question id of the game the loop is at.
GameStartId == batch.start_question_id + batch.game_num * QuestionsPerGame

\* for game_num in range(total_games): run_single_game_with_precaching is
\* called.
BatchRunSession ==
  /\ batch.pc = "loop"
  /\ batch.game_num < batch.total_games
  /\ batch' = [batch EXCEPT !.pc = "session", !.started = @ + 1]
  /\ UNCHANGED <<phase, connected, redis, jsonFile, data, sessionVars, batchHistory>>

\* A loop that returns the error of a game.
AfterSessionErrorReturn(b) ==
  [b EXCEPT !.errors = @ + 1, !.pc = "returned", !.result = "error"]

\* A loop that counts a game that returned an error as completed.
AfterSessionErrorCompleted(b) ==
  [b EXCEPT !.errors = @ + 1, !.games_completed = @ + 1, !.game_num = @ + 1,
            !.pc = "loop"]

\* if "error" in game_result: the error is logged, continue.
AfterSessionError(b) ==
  [b EXCEPT !.errors = @ + 1, !.game_num = @ + 1, !.pc = "loop"]

\* The cumulative statistics after a game that returned game_stats.
\* completed: the game_num of each score of all_game_scores.
AfterSession(b, score, correct, guesses) ==
  [b EXCEPT !.all_game_scores = Append(@, score),
            !.completed = Append(@, b.game_num),
            !.total_score = @ + score,
            !.correct_guesses = @ + correct,
            !.total_guesses = @ + guesses,
            !.games_completed = @ + 1,
            !.best_game_score = IF score > @ THEN score ELSE @,
            !.best_game_index = IF score > b.best_game_score THEN b.game_num ELSE @,
            !.game_num = @ + 1,
            !.pc = "loop"]

\* run_single_game_with_precaching returned, game_stats or {"error", "logs"}.
BatchSessionReturns ==
  /\ batch.pc = "session"
  /\ spc \in {"done", "error"}
  /\ batch' = IF spc = "error" THEN AfterSessionError(batch)
              ELSE AfterSession(batch, total_score, correct_guesses, total_guesses)
  /\ spc' = "idle"
  /\ qi' = 0
  /\ precached' = EmptyTable
  /\ question' = NoQuestion
  /\ turn' = NoTurn
  /\ total_guesses' = 0
  /\ total_score' = 0
  /\ correct_guesses' = 0
  /\ asked' = 0
  /\ UNCHANGED <<fetchLog, pcall, event>>
  /\ UNCHANGED <<phase, connected, redis, jsonFile, data, batchHistory>>

\* After the last game: save_data(data), and total_stats is returned.
BatchFinish ==
  /\ batch.pc = "loop"
  /\ batch.game_num >= batch.total_games
  /\ LET c == SaveData(CM, data)
     IN /\ connected' = c.connected
        /\ redis' = c.redis
        /\ jsonFile' = c.file
  /\ batch' = [batch EXCEPT !.pc = "returned", !.result = "stats",
                            !.writes = @ + SaveDataWrites(CM, data)]
  /\ UNCHANGED <<phase, data, sessionVars, batchHistory>>

\* A step of the session the batch is in.  A learn of the session is one
\* more write of faces_data.json.
InSession(writes) ==
  /\ batch.pc = "session"
  /\ batch' = [batch EXCEPT !.writes = @ + writes]
  /\ UNCHANGED <<calls, stage, runs, script>>

\* What make_api_guess gives in a batch: a verdict, or for the first
\* question of a game None as well.
BatchGuessOutcomes == IF qi = 0 THEN BOOLEAN ELSE {TRUE}

\* The remote numbers the questions in the order it serves them.
BatchNext ==
  \/ \E n \in 0..MaxGames, headersOk \in BOOLEAN :
       BatchBegin(n, headersOk) /\ UNCHANGED served
  \/ \E created \in BOOLEAN, answers \in MockRuns : BatchMockGame(created, answers)
  \/ BatchRunSession /\ UNCHANGED served
  \/ SessionStartFails /\ InSession(0) /\ UNCHANGED served
  \/ SessionStart(GameStartId, {}) /\ InSession(0) /\ UNCHANGED served
  \/ SessionAskNone /\ InSession(0) /\ UNCHANGED served
  \/ SessionAskRaises /\ InSession(0) /\ UNCHANGED served
  \/ /\ SessionAskQuestion(Question(served, TRUE, <<Sug(1, Bob), Sug(2, Ana)>>), TRUE)
     /\ InSession(0)
     /\ served' = served + 1
  \/ \E ok \in BatchGuessOutcomes :
       /\ SessionSubmit(ok, IF ok THEN PictureOf(question.id) ELSE NoId, IF ok THEN 1 ELSE 0)
       /\ InSession(IF Learning(ok, IF ok THEN PictureOf(question.id) ELSE NoId).hash # NoHash
                    THEN SetWrites(CM) ELSE 0)
       /\ UNCHANGED served
  \/ BatchSessionReturns /\ UNCHANGED served
  \/ BatchFinish /\ UNCHANGED served

BatchSpec == BatchInit /\ [][BatchNext]_vars

\* ------------------------------------------------------------------ CacheManager.set, step by step
\* What a step of CacheManager.set leaves alone.
setFrame ==
  <<redisUp, diskOk, phase, data, last, prev, exported, nops, sessionVars, batch, stage,
    lateVars, apiVars>>

\* A thread calls cache_manager.set(h, n).
SetCall(t, h, n) ==
  /\ calls[t].pc = "idle"
  /\ calls' = [calls EXCEPT ![t] =
                 [NoSetCall EXCEPT !.pc = "called", !.h = h, !.n = n,
                    !.rank = 1 + Cardinality({u \in Threads : calls[u].pc # "idle"})]]
  /\ UNCHANGED <<connected, redis, jsonFile, setFrame>>

\* _ensure_connection, then the pipeline: SET and the two SADD are sent as
\* one MULTI/EXEC transaction by pipe.execute().
SetExecute(t) ==
  /\ calls[t].pc = "called"
  /\ LET c1 == EnsureConnection(CM)
     IN IF ~c1.connected \/ ~redisUp
        THEN /\ calls' = [calls EXCEPT ![t].pc = "returned"]
             /\ connected' = c1.connected
             /\ redis' = redis
        ELSE /\ calls' = [calls EXCEPT ![t].pc = "executed"]
             /\ connected' = c1.connected
             /\ redis' = RedisLearn(redis, calls[t].h, calls[t].n)
  /\ UNCHANGED <<jsonFile, setFrame>>

\* _update_json_file reads the file: data = {} without a file, json.load
\* otherwise.  A file that is not a JSON object raises (json.load, or the
\* item assignment on a list); the exception is logged and set returns True.
SetRead(t) ==
  /\ calls[t].pc = "executed"
  /\ calls' = IF jsonFile.kind \in {"absent", "map"}
              THEN [calls EXCEPT ![t].pc = "read", ![t].seen = jsonFile]
              ELSE [calls EXCEPT ![t].pc = "returned", ![t].ret = TRUE]
  /\ UNCHANGED <<connected, redis, jsonFile, setFrame>>

\* open(self.json_file, 'w'): the file is truncated; an empty file is not
\* JSON.  An OSError is logged and set returns True.
SetOpen(t) ==
  /\ calls[t].pc = "read"
  /\ IF diskOk
     THEN /\ jsonFile' = CorruptFile
          /\ calls' = [calls EXCEPT ![t].pc = "writing", ![t].overlaid = FALSE]
     ELSE /\ jsonFile' = jsonFile
          /\ calls' = [calls EXCEPT ![t].pc = "returned", ![t].ret = TRUE]
  /\ UNCHANGED <<connected, redis, setFrame>>

\* The with block ends: what json.dump buffered is written from offset 0
\* and the file closed, and set returns True.  When another thread has
\* written its content since this one opened the file, a longer content of
\* the other keeps its tail behind this one's (intact = FALSE): not JSON.
SetClose(t, intact) ==
  /\ calls[t].pc = "writing"
  /\ ~intact => calls[t].overlaid
  /\ jsonFile' = IF intact THEN UpdateJsonFile(calls[t].seen, calls[t].h, calls[t].n)
                 ELSE CorruptFile
  /\ calls' = [u \in Threads |->
                 IF u = t THEN [calls[u] EXCEPT !.pc = "returned", !.ret = TRUE]
                 ELSE IF calls[u].pc = "writing" THEN [calls[u] EXCEPT !.overlaid = TRUE]
                 ELSE calls[u]]
  /\ UNCHANGED <<connected, redis, setFrame>>

ConcurrentNext ==
  \/ \E t \in Threads, h \in Hashes, n \in {Ana, Bob} : SetCall(t, h, n)
  \/ \E t \in Threads : SetExecute(t)
  \/ \E t \in Threads : SetRead(t)
  \/ \E t \in Threads : SetOpen(t)
  \/ \E t \in Threads, intact \in BOOLEAN : SetClose(t, intact)

ConcurrentSpec == GameInit /\ [][ConcurrentNext]_vars

\* ------------------------------------------------------------------ precache_images_for_game, step by step
\* What a step of the precaching stage leaves alone.
stageFrame == <<storeVars, sessionVars, batch, calls, lateVars, apiVars>>

\* precache_images_for_game(game_id, start, count, headers, data) is called.
StageBegin(count) ==
  /\ stage.pc = "idle"
  /\ stage' = [NoStage EXCEPT !.pc = "loop", !.count = count]
  /\ UNCHANGED stageFrame

\* for i in range(num_questions): the loop has an i left.
MayIssue(st) == st.pc = "loop" /\ st.i < st.count

\* get_image_hash_with_game_id is called: requests.get is sent for the
\* picture of question start + i, and the loop waits for it.
StageIssue ==
  /\ MayIssue(stage)
  /\ stage' = [stage EXCEPT !.pc = "fetching", !.issued = @ + 1]
  /\ UNCHANGED stageFrame

\* The request is answered (ok: 200 with the picture) or fails: a digest is
\* filed with data's name for it, a failure is logged and skipped.
StageResolve(ok) ==
  /\ stage.pc = "fetching"
  /\ ~ok => stage.failed < MaxFetchFailures
  /\ LET q == stage.start + stage.i
         h == PictureOf(q)
     IN stage' = [stage EXCEPT
                    !.pc = "loop", !.i = @ + 1, !.resolved = @ + 1,
                    !.failed = IF ok THEN @ ELSE @ + 1,
                    !.cached = IF ok THEN (q :> [hash |-> h, name |-> DictGet(data, h)]) @@ @
                               ELSE @]
  /\ UNCHANGED stageFrame

\* A stage that returns while its last fetch is still out.
MayReturnWhileFetching(st) == st.pc \in {"loop", "fetching"} /\ st.i + 1 >= st.count

\* The loop is exhausted.
MayReturn(st) == st.pc = "loop" /\ st.i >= st.count

\* return cached_data, logs.
StageReturn ==
  /\ MayReturn(stage)
  /\ stage' = [stage EXCEPT !.pc = "returned"]
  /\ UNCHANGED stageFrame

StageNext ==
  \/ \E count \in 0..QuestionsPerGame : StageBegin(count)
  \/ StageIssue
  \/ \E ok \in BOOLEAN : StageResolve(ok)
  \/ StageReturn

StageSpec == GameInit /\ [][StageNext]_vars

\* ------------------------------------------------------------------ make_api_guess
\* What one requests.post gives: a response with a status code and a body
\* that response.json() parses or not, or an exception (status 0).
Response(status, parses) == [status |-> status, parses |-> parses]
NoResponse == Response(0, FALSE)
Responses ==
  { Response(200, TRUE), Response(200, FALSE), Response(404, FALSE),
    Response(401, FALSE), Response(500, FALSE), NoResponse }

\* urls: the singular endpoint first, the plural second.
UrlsSingularOnly == <<"guess">>
\* A list that comes back to the first endpoint after the second.
UrlsSingularAgain == <<"guess", "guesses", "guess">>
Urls == <<"guess", "guesses">>

\* One pass of the loop body over a response: "return" leaves the function
\* with response.json(); "next" goes on to the next URL (the continue of a
\* 404, the fall-through after logger.error, an exception caught and logged,
\* response.json() included).
AfterResponse(resp) == IF resp.status = 200 /\ resp.parses THEN "return" ELSE "next"

\* make_api_guess(game_id, question_id, payload, headers) is called.
CallMakeApiGuess(q, sid) ==
  /\ guessCall.pc \in {"idle", "returned"}
  /\ guessCall' = [pc |-> "posting", question_id |-> q, suggestion_id |-> sid,
                   tried |-> <<>>, result |-> "none"]
  /\ UNCHANGED <<storeVars, gameVars, upload, backup, rebuild>>

\* requests.post to the next URL of the list, and what the loop does with the
\* outcome; after the last URL the function returns None.
Post(resp) ==
  /\ guessCall.pc = "posting"
  /\ LET url == Urls[Len(guessCall.tried) + 1]
         tried == Append(guessCall.tried, [url |-> url, status |-> resp.status])
         after == AfterResponse(resp)
     IN guessCall' =
          IF after = "return"
          THEN [guessCall EXCEPT !.pc = "returned", !.tried = tried, !.result = url]
          ELSE IF Len(tried) = Len(Urls)
          THEN [guessCall EXCEPT !.pc = "returned", !.tried = tried, !.result = "None"]
          ELSE [guessCall EXCEPT !.tried = tried]
  /\ UNCHANGED <<storeVars, gameVars, upload, backup, rebuild>>

GuessNext ==
  \/ \E q \in Window, sid \in {1, 2} : CallMakeApiGuess(q, sid)
  \/ \E resp \in Responses : Post(resp)

GuessSpec == GameInit /\ [][GuessNext]_vars

\* ------------------------------------------------------------------ claims: the store
\* C1: after learn(F, I) (CacheManager.set) has returned, lookup(F)
\* (CacheManager.get) returns I and search_by_identity(I)
\* (CacheManager.search_by_name) contains F.
C1_LearnThenLookupAndSearch ==
  last.op = "set" =>
    /\ Get(CM, last.h) = last.n
    /\ last.h \in SearchByName(CM, last.n)

\* C2: learn(F, I1) followed by learn(F, I2) leaves I2 for F, in the volatile
\* primary map (lookup) and in the durable file.
C2_RelearnReplaces ==
  (last.op = "set" /\ prev.op = "set" /\ prev.h = last.h) =>
    /\ Get(CM, last.h) = last.n
    /\ FileLookup(jsonFile, last.h) = last.n

\* C3: after learn(F, I1) followed by learn(F, I2) with I1 # I2, F is not in
\* search_by_identity(I1): the second learn has removed F from the reverse
\* index of I1.
C3_RelearnLeavesOldIdentity ==
  (last.op = "set" /\ prev.op = "set" /\ prev.h = last.h /\ prev.n # last.n) =>
    /\ last.h \notin SearchByName(CM, prev.n)
    /\ last.h \notin redis.name[prev.n]

\* C4: round trip.  While the durable file is the one save_data(M) wrote, a
\* store constructed over it, or load_data reading it, gives lookup(F) = M[F]
\* for every fingerprint F of M (and load_data returns M[F] for F).
C4_RoundTrip ==
  (exported.valid /\ last.op \in {"construct", "load_data"}) =>
    \A f \in DOMAIN exported.map :
      /\ Get(CM, f) = exported.map[f]
      /\ last.op = "load_data" => DictGet(last.data, f) = exported.map[f]

\* C4 witness: a two-entry mapping was exported, the volatile backend was
\* flushed, and load_data has imported the file.
C4_Witness ==
  /\ exported.valid /\ DOMAIN exported.map = Hashes
  /\ last.op = "load_data" /\ prev.op = "clear"
  /\ \A f \in Hashes : Get(CM, f) = exported.map[f]

\* C5: after a store has been constructed over a legacy list file, or
\* load_data has read one, every record of the file that has both fields is
\* available to lookup.
C5_LegacyImport ==
  (last.op \in {"construct", "load_data"} /\ last.legacy # <<>>) =>
    \A h \in Hashes :
      ListLookup(last.legacy, h) # NoName =>
        Get(CM, h) = ListLookup(last.legacy, h)

\* C6: a learn that finds the durable file in the legacy list format leaves
\* it in the mapping format, holding the legacy associations and the new one.
C6_LegacyUpgradedOnWrite ==
  (last.op = "set" /\ last.ret /\ last.legacy # <<>>) =>
    /\ jsonFile.kind = "map"
    /\ FileLookup(jsonFile, last.h) = last.n
    /\ \A h \in Hashes \ {last.h} :
         FileLookup(jsonFile, h) = ListLookup(last.legacy, h)

\* ------------------------------------------------------------------ claims: the game
\* What the resolution of the current question works from: the fingerprint
\* (the table's, else the one fetched on demand) and the identity known for it
\* (the one the table entry carries, else data's).
CurrentHit == question.id \in DOMAIN precached
ResolvedHash == IF CurrentHit THEN precached[question.id].hash ELSE turn.hash
KnownIdentity ==
  IF CurrentHit THEN precached[question.id].name ELSE DictGet(data, ResolvedHash)
Matching ==
  { i \in 1..Len(question.suggestions) :
      Truthy(KnownIdentity) /\ Lower(question.suggestions[i].value) = Lower(KnownIdentity) }

\* C7: precache_images_for_game over `count` consecutive question ids fetches
\* every id of the range whatever fetches fail, and returns a table with
\* exactly one entry per id whose fetch succeeded and none for a failed id,
\* each entry under its question id with the digest fetched for that id.
C7_OneEntryPerSucceededFetch ==
  spc = "precached" =>
    LET ids == pcall.start..(pcall.start + pcall.count - 1)
    IN /\ DOMAIN fetchLog = ids
       /\ DOMAIN precached = {q \in ids : fetchLog[q] # NoHash}
       /\ \A q \in DOMAIN precached :
            /\ precached[q].hash = fetchLog[q]
            /\ precached[q].hash = PictureOf(q)

\* C7, its case: 2 of 10 fetches fail and the table has 8 entries.
C7_Witness ==
  /\ spc = "precached"
  /\ pcall.count = QuestionsPerGame
  /\ Cardinality({q \in DOMAIN fetchLog : fetchLog[q] = NoHash}) = 2
  /\ Cardinality(DOMAIN precached) = QuestionsPerGame - 2

\* C8, as amended: a session whose 10 questions all arrive with candidates
\* submits exactly 10 guesses, also when questions have no precache entry; for
\* each question without a precache entry that carries an image locator the
\* loop makes an on-demand fetch of the picture.
C8_TenGuessesFallbackIfLocator ==
  /\ (spc = "done" /\ qi = QuestionsPerGame) => total_guesses = QuestionsPerGame
  /\ (spc = "guessing" /\ ~CurrentHit /\ question.hasImage) =>
       (turn.miss /\ turn.fetch # "none")

\* C8, as stated: exactly 10 guesses, and for each question without a precache
\* entry an on-demand fetch is made.
C8_TenGuessesFallbackAlways ==
  /\ (spc = "done" /\ qi = QuestionsPerGame) => total_guesses = QuestionsPerGame
  /\ (spc = "guessing" /\ ~CurrentHit) => (turn.miss /\ turn.fetch # "none")

\* C8, its case: ten questions arrived, two of them missing from the table
\* because their precache fetches failed, and ten guesses were submitted.
C8_Witness ==
  /\ spc = "done"
  /\ qi = QuestionsPerGame
  /\ total_guesses = QuestionsPerGame
  /\ DOMAIN precached = Window \ {WindowStart, WindowStart + QuestionsPerGame - 1}

C10_FallsBackToFirstCandidate ==
  (spc = "guessing" /\ (ResolvedHash = NoHash \/ Matching = {})) =>
    /\ turn.guess # NoId
    /\ turn.guess = question.suggestions[1].id

\* C10, its case: an identity is known and no candidate carries it.
C10_Witness ==
  /\ spc = "guessing"
  /\ ResolvedHash # NoHash
  /\ Truthy(KnownIdentity)
  /\ Matching = {}
  /\ turn.guess = question.suggestions[1].id

\* ------------------------------------------------------------------ claims: make_api_guess
\* C11: when the singular guess endpoint answers 404, the plural endpoint is
\* tried, and make_api_guess returns None only after the plural endpoint has
\* been tried as well.
C11_PluralTriedBeforeFailure ==
  guessCall.pc = "returned" =>
    /\ (guessCall.tried[1].url = "guess" /\ guessCall.tried[1].status = 404) =>
         (Len(guessCall.tried) = 2 /\ guessCall.tried[2].url = "guesses")
    /\ guessCall.result = "None" =>
         (Len(guessCall.tried) = 2 /\ guessCall.tried[2].url = "guesses")

\* C11, its case: the singular endpoint answered 404 and the verdict returned
\* is the plural endpoint's.
C11_Witness ==
  /\ guessCall.pc = "returned"
  /\ guessCall.tried[1] = [url |-> "guess", status |-> 404]
  /\ Len(guessCall.tried) = 2
  /\ guessCall.tried[2] = [url |-> "guesses", status |-> 200]
  /\ guessCall.result = "guesses"

\* C12: the singular endpoint is tried first and the plural second, and the
\* first endpoint to return a response other than 404 decides the outcome: no
\* further endpoint is tried after such a response, whatever its status.
C12_FirstNon404ResponseDecides ==
  /\ Len(guessCall.tried) >= 1 => guessCall.tried[1].url = "guess"
  /\ Len(guessCall.tried) >= 2 =>
       /\ guessCall.tried[2].url = "guesses"
       /\ guessCall.tried[1].status \in {404, NoResponse.status}

\* ------------------------------------------------------------------ claims: the store without Redis
\* C13: while the volatile backend is unavailable, lookup(F) for a fingerprint
\* stored in the durable file still returns the file's identity for F.
C13_LookupDegradesToFile ==
  (phase # "off" /\ ~redisUp) =>
    \A h \in Hashes :
      FileLookup(jsonFile, h) # NoName => Get(CM, h) = FileLookup(jsonFile, h)

\* C14: a learn made while the volatile backend is unavailable returns
\* without raising and the association is written to the durable file.
C14_LearnFallsBackToFile ==
  (last.op = "set" /\ ~last.up) => FileLookup(jsonFile, last.h) = last.n

\* ------------------------------------------------------------------ claims: the store with a read-only file
\* C15: when the durable write fails during learn(F, I), the volatile write
\* is kept (lookup(F) returns I, F is in the reverse index of I and I in the
\* letter index) and the failure is reported to the caller of learn.
C15_DurableFailureKeptAndReported ==
  (last.op = "set" /\ last.up /\ ~last.disk) =>
    /\ Get(CM, last.h) = last.n
    /\ last.h \in redis.name[last.n]
    /\ last.n \in redis.letter[FirstLetter(last.n)]
    /\ ~last.ret

\* ------------------------------------------------------------------ claims: upload_data
\* C16: when the uploaded file is not valid JSON and a durable file existed,
\* the upload is rejected with an explicit error and the previous file's
\* content is the durable file again, unchanged.
C16_CorruptUploadRestoresPrevious ==
  (last.op = "upload" /\ upload.content \in NotJson /\ upload.before # NoFile) =>
    /\ upload.status # 200
    /\ ~last.ret
    /\ jsonFile = upload.before

\* C17: when the durable file fails to parse and there was no previous file,
\* the store goes on from an empty mapping: the corrupt content does not stay
\* in place as the durable file, and an association learned afterwards is in
\* the durable file.
C17_CorruptWithoutSnapshotStartsEmpty ==
  (upload.content \in NotJson /\ upload.before = NoFile) =>
    /\ last.op = "upload" => jsonFile.kind # "corrupt"
    /\ (last.op = "set" /\ last.ret) => FileLookup(jsonFile, last.h) = last.n

\* ------------------------------------------------------------------ claims: load_data
\* C18: a load_data step keeps the volatile identity of every fingerprint
\* that the volatile backend and the durable file hold with different
\* identities, whether the file is a mapping or a legacy list: the returned
\* data and the volatile backend still map it to the volatile identity.
C18_VolatileTakesPrecedence ==
  [][(last'.op = "load_data" /\ nops' = nops + 1) =>
       \A h \in Hashes :
         LET volatile == Get(CM, h)
             durable == FileLookup(jsonFile, h)
         IN (Truthy(volatile) /\ durable # NoName /\ durable # volatile) =>
              /\ DictGet(data', h) = volatile
              /\ redis'.hash[h] = volatile]_vars

\* ------------------------------------------------------------------ claims: export order
\* Python's order on str: lexicographic on code points.
RECURSIVE StrLeq(_, _)
StrLeq(a, b) ==
  IF a = <<>> THEN TRUE
  ELSE IF b = <<>> THEN FALSE
  ELSE IF a[1] # b[1] THEN a[1] < b[1]
  ELSE StrLeq(Tail(a), Tail(b))

OrderedByIdentity(items) ==
  \A i \in 1..Len(items), j \in 1..Len(items) : i < j => StrLeq(items[i][2], items[j][2])

\* C19: the mapping that save_data writes at the end of a batch, and the one
\* that a learn leaves in the durable file, is ordered by identity value.
C19_ExportOrderedByIdentity ==
  (last.op \in {"save_data", "set"} /\ last.ret /\ jsonFile.kind = "map") =>
    OrderedByIdentity(jsonFile.items)

\* ------------------------------------------------------------------ claims: the indexes
\* C20: in every state of the store, the states between two Redis commands of
\* an index rebuild included, each association F -> I of the primary map has
\* F in the reverse index of I.
C20_PrimaryEntriesAreIndexed ==
  \A h \in Hashes : redis.hash[h] # NoName => h \in redis.name[redis.hash[h]]

\* C20, its case: a rebuild stands between the SET and the SADD of an
\* association, after the database was cleared and associations learned.
C20_Witness ==
  /\ phase = "indexing"
  /\ rebuild.step = "sadd_name"
  /\ redis.hash[rebuild.todo[1][1]] = rebuild.todo[1][2]
  /\ rebuild.todo[1][1] \in redis.name[rebuild.todo[1][2]]
  /\ \E n \in Names : redis.name[n] # {} /\ \A h \in Hashes : redis.hash[h] # n

\* ------------------------------------------------------------------ claims: the prefix index
\* C21: in every state, the identities held by the prefix index (over all
\* first letters) are exactly the identities that occur as values of the
\* primary map, each under its lower-cased first letter; an identity that no
\* fingerprint maps to any more is not in the prefix index.
C21_PrefixIndexMatchesPrimary ==
  LET indexed == UNION {redis.letter[l] : l \in DOMAIN redis.letter}
      present == {redis.hash[h] : h \in {k \in Hashes : redis.hash[k] # NoName}}
  IN /\ indexed = present
     /\ \A n \in present : n \in redis.letter[FirstLetter(n)]

\* ------------------------------------------------------------------ claims: the batch and the session
\* C22: the batch runner never raises; whenever it has returned, also after a
\* remote failure at any step, what it returned is the structured outcome
\* with the counts of attempted and completed sessions and the log.
C22_BatchReturnsCountsOnEveryPath ==
  batch.pc = "returned" => batch.result = "stats"

\* A session that failed to start: run_single_game_with_precaching is back
\* with an error before any question was requested.
StartFailed == batch.pc = "session" /\ spc = "error" /\ asked = 0

\* C23: a failure to start a session ends that session only: when the session
\* returns, the batch runner logs one error, leaves the cumulative statistics
\* as they were and goes on with the loop at the next session; and the batch
\* returns its statistics only once every session of the batch was attempted.
C23_StartFailureEndsThatSessionOnly ==
  [][/\ (StartFailed /\ batch'.pc # "session") =>
          /\ batch'.errors = batch.errors + 1
          /\ batch'.pc = "loop"
          /\ batch'.game_num = batch.game_num + 1
          /\ batch'.total_score = batch.total_score
          /\ batch'.correct_guesses = batch.correct_guesses
          /\ batch'.total_guesses = batch.total_guesses
          /\ batch'.games_completed = batch.games_completed
          /\ batch'.all_game_scores = batch.all_game_scores
          /\ batch'.best_game_score = batch.best_game_score
          /\ batch'.best_game_index = batch.best_game_index
     /\ (batch.pc = "loop" /\ batch'.pc = "returned") =>
          /\ batch'.result = "stats"
          /\ batch'.started = batch'.total_games]_vars

\* C23, its case: the first session of a batch of two failed to start (no
\* precaching was ever done), one error is logged, nothing is completed, and
\* the second session has been called.
C23_Witness ==
  /\ batch.pc = "session"
  /\ batch.total_games = 2
  /\ batch.started = 2
  /\ batch.errors = 1
  /\ batch.games_completed = 0
  /\ pcall = NoPrecache

\* A request for the next question is answered in this step.
Asks == asked' = asked + 1

C25_FailedGuessGoesOn ==
  [][(spc = "guessing" /\ spc' # "guessing" /\ event'.guess = "failed") =>
       /\ total_score' = total_score
       /\ correct_guesses' = correct_guesses
       /\ event'.hash = NoHash
       /\ data' = data /\ redis' = redis /\ jsonFile' = jsonFile
       /\ qi' = qi + 1
       /\ spc' = IF qi + 1 < QuestionsPerGame THEN "asking" ELSE "done"]_vars

\* C25, its case: after a verdict that scored and taught an identity, the
\* guess of the second round failed, and the session is asking again.
C25_Witness ==
  /\ spc = "asking"
  /\ qi = 2
  /\ event.guess = "failed"
  /\ total_guesses = 2
  /\ total_score = 1
  /\ data # EmptyDict

\* C26: after a verdict that names the correct identity, learn is called with
\* that identity for the fingerprint resolved for the question, the table's
\* or the one fetched on demand; it is skipped only without a fingerprint.
C26_LearnsForResolvedFingerprint ==
  [][(spc = "guessing" /\ spc' # "guessing" /\ event'.guess = "verdict"
        /\ event'.correct # EmptyStr) =>
       IF ResolvedHash # NoHash
       THEN /\ event'.hash = ResolvedHash
            /\ event'.name = event'.correct
            /\ DictGet(data', ResolvedHash) = event'.correct
       ELSE event'.hash = NoHash]_vars

\* C27: during a batch the durable file is written exactly once, by the save
\* at the end of the batch: no write has been made while the batch runs, and
\* one has been made when it has returned its statistics.
C27_FileWrittenOnceAtEnd ==
  /\ batch.pc \in {"mock", "loop", "session"} => batch.writes = 0
  /\ (batch.pc = "returned" /\ batch.result = "stats") => batch.writes = 1

\* ------------------------------------------------------------------ claims: concurrency
\* Two calls of set have returned True, the file having been absent or a
\* JSON object when they began.
BothLearned ==
  \A t \in Threads : calls[t].pc = "returned" /\ calls[t].ret

\* C28: two learn calls for different fingerprints that ran concurrently are
\* both in the durable file, under every interleaving of their
\* read-modify-write cycles, and the file is never left partially written.
C28_ConcurrentLearnsBothDurable ==
  (BothLearned /\ calls[1].h # calls[2].h) =>
    /\ jsonFile.kind = "map"
    /\ \A t \in Threads : FileLookup(jsonFile, calls[t].h) = calls[t].n

\* C29: when learn(F, I1) was called before learn(F, I2) and both have
\* completed, the volatile primary map and the durable file both hold I2 for
\* F, under every interleaving of their steps.
C29_SameFingerprintLastCallWins ==
  \A t1, t2 \in Threads :
    (BothLearned /\ calls[t1].h = calls[t2].h /\ calls[t1].rank < calls[t2].rank) =>
      /\ redis.hash[calls[t2].h] = calls[t2].n
      /\ FileLookup(jsonFile, calls[t2].h) = calls[t2].n

\* C30: the precaching stage called with `count` questions never has more
\* than `count` fetches outstanding, and when it has returned every fetch it
\* issued has resolved or failed.
C30_BoundedFetchesJoinedBeforeReturn ==
  /\ stage.issued - stage.resolved <= stage.count
  /\ stage.pc = "returned" => stage.issued = stage.resolved

\* C30, its case: a stage of ten questions has returned after ten fetches,
\* two of which failed, with the eight other pictures in its table.
C30_Witness ==
  /\ stage.pc = "returned"
  /\ stage.count = QuestionsPerGame
  /\ stage.issued = QuestionsPerGame
  /\ stage.failed = 2
  /\ Cardinality(DOMAIN stage.cached) = QuestionsPerGame - 2

\* C31: a session asks for at most ten questions and submits at most ten
\* guesses, never more guesses than questions asked for, and it is over once
\* the tenth round is: it asks again only while fewer than ten rounds began.
C31_TenRoundsAtMost ==
  /\ asked <= QuestionsPerGame
  /\ total_guesses <= asked
  /\ total_guesses <= QuestionsPerGame
  /\ spc = "asking" => (asked < QuestionsPerGame /\ qi < QuestionsPerGame)
  /\ qi >= QuestionsPerGame => spc = "done"

\* C31, its case: the session is over after ten questions and ten guesses.
C31_Witness ==
  /\ spc = "done"
  /\ asked = QuestionsPerGame
  /\ total_guesses = QuestionsPerGame

\* C32: whenever a session calls learn or changes a store, it does so on a
\* verdict, for the fingerprint of the current question's picture and with
\* the non-empty display name of the suggestion of that question whose id is
\* the verdict's correctSuggestionId; the in-memory map and Redis then hold
\* that name for the fingerprint.
C32_LearnsCorrectCandidateOnly ==
  [][(event'.hash # NoHash \/ data' # data \/ redis' # redis \/ jsonFile' # jsonFile) =>
       /\ spc = "guessing"
       /\ event'.guess = "verdict"
       /\ event'.hash = PictureOf(question.id)
       /\ event'.name # EmptyStr
       /\ \E i \in 1..Len(question.suggestions) :
            /\ question.suggestions[i].id = event'.cid
            /\ question.suggestions[i].value = event'.name
       /\ DictGet(data', event'.hash) = event'.name
       /\ Get(CM', event'.hash) = event'.name]_vars

\* C32, its case: the first suggestion was guessed for a picture of Ana, the
\* verdict named the second one, and Ana was learned for the fingerprint.
C32_Witness ==
  /\ event.guess = "verdict"
  /\ event.cid = 2
  /\ event.hash = 2
  /\ event.name = Ana
  /\ correct_guesses = 0
  /\ total_guesses = 2
  /\ DictGet(data, 2) = Ana

\* C33: make_api_guess sends at most two requests for a guess, to the
\* singular and the plural endpoint, and none to an endpoint it has already
\* tried for that guess.
C33_EachEndpointOnce ==
  /\ Len(guessCall.tried) <= 2
  /\ \A i, j \in 1..Len(guessCall.tried) :
       guessCall.tried[i].url = guessCall.tried[j].url => i = j
  /\ \A i \in 1..Len(guessCall.tried) : guessCall.tried[i].url \in {"guess", "guesses"}

\* C33, its case: both endpoints failed with a status other than 404, and
\* the function returned None after two requests.
C33_Witness ==
  /\ guessCall.pc = "returned"
  /\ guessCall.result = "None"
  /\ Len(guessCall.tried) = 2
  /\ guessCall.tried[1].status = 500
  /\ guessCall.tried[2].status = 500

\* ------------------------------------------------------------------ claims: batch results
RECURSIVE SumSeq(_)
SumSeq(s) == IF s = <<>> THEN 0 ELSE s[1] + SumSeq(Tail(s))

MaxOf(s) == CHOOSE m \in {s[i] : i \in 1..Len(s)} : \A i \in 1..Len(s) : s[i] <= m

\* C34: a batch that returned its statistics with at least one completed
\* game reports as best_game_score the maximum of all_game_scores and as
\* best_game_index the index of a completed game that scored it.
C34_BestGameIsACompletedMaximum ==
  (batch.result = "stats" /\ batch.games_completed >= 1) =>
    /\ batch.best_game_score = MaxOf(batch.all_game_scores)
    /\ \E i \in 1..Len(batch.completed) :
         /\ batch.completed[i] = batch.best_game_index
         /\ batch.all_game_scores[i] = MaxOf(batch.all_game_scores)

\* C35: when a batch has returned its statistics, Redis and faces_data.json
\* hold exactly the associations of the batch's in-memory map.
C35_StoresEqualDataAfterBatch ==
  batch.result = "stats" =>
    /\ GetAll(CM) = data
    /\ jsonFile.kind = "map"
    /\ PairsToDict(jsonFile.items) = data
    /\ Len(jsonFile.items) = Cardinality(DOMAIN data)

\* C35, its case: a batch has learned both identities in its games and has
\* saved.
C35_Witness ==
  /\ batch.result = "stats"
  /\ batch.games_completed = 2
  /\ batch.writes > 1
  /\ DictGet(data, 1) = Bob
  /\ DictGet(data, 2) = Ana
  /\ event.hash # NoHash

\* C36: all along a batch total_score is the sum of all_game_scores,
\* games_completed their number and at most games_attempted, and
\* correct_guesses <= total_guesses <= 10 * games_completed; a game that
\* returned an error leaves all of them as they were.
C36_CumulativeStatisticsAgree ==
  /\ [](batch.pc \in {"loop", "session", "returned"} /\ batch.result # "error" =>
          /\ batch.total_score = SumSeq(batch.all_game_scores)
          /\ batch.games_completed = Len(batch.all_game_scores)
          /\ batch.games_completed <= batch.games_attempted
          /\ batch.correct_guesses <= batch.total_guesses
          /\ batch.total_guesses <= QuestionsPerGame * batch.games_completed)
  /\ [][batch'.errors = batch.errors + 1 =>
          /\ batch'.total_score = batch.total_score
          /\ batch'.all_game_scores = batch.all_game_scores
          /\ batch'.games_completed = batch.games_completed
          /\ batch'.games_attempted = batch.games_attempted
          /\ batch'.correct_guesses = batch.correct_guesses
          /\ batch'.total_guesses = batch.total_guesses]_vars

\* C36, its case: of two games one returned an error after a scored guess
\* and the other completed with a score.
C36_Witness ==
  /\ batch.result = "stats"
  /\ batch.errors = 1
  /\ batch.games_completed = 1
  /\ batch.all_game_scores = <<2>>
  /\ batch.correct_guesses = 2
  /\ batch.total_guesses = 3

\* C37: when the precache entry of the current question carries a
\* fingerprint and no name, and a verdict on an earlier question of the same
\* fingerprint has since put a name for it into the in-memory map, the guess
\* is the suggestion bearing that name, if the question has one.
C37_GuessesNameLearnedSincePrecache ==
  (/\ spc = "guessing"
   /\ CurrentHit
   /\ precached[question.id].hash # NoHash
   /\ ~Truthy(precached[question.id].name)
   /\ DictGet(data, precached[question.id].hash) # NoName
   /\ FirstMatch(question.suggestions, DictGet(data, precached[question.id].hash)) # NoId) =>
    turn.guess = FirstMatch(question.suggestions, DictGet(data, precached[question.id].hash))

\* C38: with the remote numbering the questions in the order it serves
\* them, the question a game of a batch is answering has its id in the
\* precache window of that game, the ten ids from start_question_id + 10 *
\* game_num on.
C38_QuestionInsideGameWindow ==
  (batch.pc = "session" /\ spc = "guessing") =>
    /\ question.id >= GameStartId
    /\ question.id <= GameStartId + QuestionsPerGame - 1

\* ------------------------------------------------------------------ two batches at once
\* What a step of one of two concurrent runs leaves alone.
runsFrame ==
  <<redisUp, diskOk, phase, data, last, prev, exported, nops, sessionVars, batch, calls,
    stage, served, script, apiVars>>

\* Run r is called: data = load_data().
RunBegin(r) ==
  /\ runs[r].pc = "idle"
  /\ LET l == LoadData(CM)
     IN /\ runs' = [runs EXCEPT ![r] = [pc |-> "playing", data |-> l.data, learned |-> {}]]
        /\ connected' = l.cm.connected
        /\ redis' = l.cm.redis
        /\ jsonFile' = l.cm.file
  /\ UNCHANGED runsFrame

\* A verdict in a game of run r names n for a precached fingerprint h:
\* data[h] = n and cache_manager.set(h, n).
RunLearn(r, h, n) ==
  /\ runs[r].pc = "playing"
  /\ LET s == CacheSet(CM, h, n)
     IN /\ runs' = [runs EXCEPT ![r].data = DictSet(@, h, n),
                                ![r].learned = IF s.ret THEN @ \cup {h} ELSE @]
        /\ connected' = s.cm.connected
        /\ redis' = s.cm.redis
        /\ jsonFile' = s.cm.file
  /\ UNCHANGED runsFrame

\* The games of run r are over: save_data(data).
RunFinish(r) ==
  /\ runs[r].pc = "playing"
  /\ LET c == SaveData(CM, runs[r].data)
     IN /\ connected' = c.connected
        /\ redis' = c.redis
        /\ jsonFile' = c.file
  /\ runs' = [runs EXCEPT ![r].pc = "returned"]
  /\ UNCHANGED runsFrame

RunsNext ==
  \/ \E r \in Threads : RunBegin(r)
  \/ \E r \in Threads, h \in Hashes, n \in {Ana, Bob} : RunLearn(r, h, n)
  \/ \E r \in Threads : RunFinish(r)

RunsSpec == BatchInit /\ [][RunsNext]_vars

\* C39: the save_data that ends one of two concurrent runs leaves in
\* faces_data.json every fingerprint that the other run has learned and that
\* the file held just before.
C39_SaveKeepsOtherRunsLearns ==
  [][\A r \in Threads :
       (runs[r].pc = "playing" /\ runs'[r].pc = "returned") =>
         \A o \in Threads \ {r} : \A h \in runs[o].learned :
           FileLookup(jsonFile, h) # NoName => FileLookup(jsonFile', h) # NoName]_vars

\* ------------------------------------------------------------------ main.py
\* load_existing_data: the records of a JSON array that have a "hash" and a
\* "name", later records replacing earlier ones.  On a JSON object the loop
\* runs over its keys, hex digests in which 'hash' does not occur: nothing is
\* loaded.  A file that is absent or no JSON gives the empty dict.
RECURSIVE LoadRecords(_, _)
LoadRecords(acc, items) ==
  IF items = <<>> THEN acc
  ELSE LoadRecords(IF items[1].hash # NoHash /\ items[1].name # NoName
                   THEN PairsPut(acc, items[1].hash, items[1].name) ELSE acc,
                   Tail(items))

LoadExistingData(f) == IF f.kind = "list" THEN LoadRecords(<<>>, f.items) ELSE <<>>

\* sorted(json_data, key=lambda x: x["name"]): stable, by code point.
RECURSIVE InsertByName(_, _)
InsertByName(sorted, p) ==
  IF sorted = <<>> THEN <<p>>
  ELSE IF StrLeq(sorted[1][2], p[2]) THEN <<sorted[1]>> \o InsertByName(Tail(sorted), p)
  ELSE <<p>> \o sorted

RECURSIVE SortedByName(_)
SortedByName(pairs) ==
  IF pairs = <<>> THEN <<>>
  ELSE InsertByName(SortedByName(SubSeq(pairs, 1, Len(pairs) - 1)), pairs[Len(pairs)])

\* main.save_data: the file becomes the array of {"hash", "name"} records of
\* hash_name_map, sorted by name.
MainSaveData(map) ==
  LET s == SortedByName(map)
  IN ListFile([k \in 1..Len(s) |-> [hash |-> s[k][1], name |-> s[k][2]]])

\* The files main.main may find.
ScriptFiles ==
  { NoFile, CorruptFile,
    MapFile(<<<<1, Ana>>>>),
    MapFile(<<<<1, Bob>>, <<2, Ana>>>>),
    ListFile(<<[hash |-> 1, name |-> Bob]>>),
    ListFile(<<[hash |-> 2, name |-> Bob], [hash |-> 1, name |-> Ana]>>) }

ScriptInit ==
  /\ redisUp = TRUE
  /\ diskOk = TRUE
  /\ phase = "off"
  /\ connected = FALSE
  /\ redis = EmptyRedis
  /\ jsonFile \in ScriptFiles
  /\ data = EmptyDict
  /\ last = NoCall
  /\ prev = Brief(NoCall)
  /\ exported = NoExport
  /\ nops = 0
  /\ GameIdle
  /\ ApiIdle

\* What a step of main.main leaves alone.
scriptFrame ==
  <<redisUp, diskOk, phase, connected, redis, data, last, prev, exported, sessionVars,
    batch, calls, stage, served, runs, apiVars>>

\* main(): hash_name_map = load_existing_data(), then POST /games.  Without
\* a game id main ends, and so it does when the request raises.
ScriptStart(created) ==
  /\ script.pc \in {"idle", "done"}
  /\ nops < MaxOps
  /\ nops' = nops + 1
  /\ script' = [pc |-> IF created THEN "playing" ELSE "done", i |-> 0,
                 hash_name_map |-> LoadExistingData(jsonFile)]
  /\ UNCHANGED <<jsonFile, scriptFrame>>

\* One iteration of the loop with a question: on a verdict whose
\* correctSuggestionId is one of the suggestions, and with a digest of the
\* picture, hash_name_map[image_hash] = correct_name.  h = NoHash: nothing
\* is learned in this iteration.
ScriptIteration(h, n) ==
  /\ script.pc = "playing"
  /\ script.i < QuestionsPerGame
  /\ script' = [script EXCEPT !.i = @ + 1,
                              !.hash_name_map = IF h # NoHash THEN PairsPut(@, h, n) ELSE @]
  /\ UNCHANGED <<jsonFile, nops, scriptFrame>>

\* An exception in the loop is caught by the except clauses of main, which
\* lie past the call of save_data: nothing is saved.
ScriptRaises ==
  /\ script.pc = "playing"
  /\ script.i < QuestionsPerGame
  /\ script' = [script EXCEPT !.pc = "done"]
  /\ UNCHANGED <<jsonFile, nops, scriptFrame>>

\* The loop is over, exhausted or left with break at a missing question:
\* save_data(hash_name_map).
ScriptSave ==
  /\ script.pc = "playing"
  /\ script' = [script EXCEPT !.pc = "done"]
  /\ jsonFile' = MainSaveData(script.hash_name_map)
  /\ UNCHANGED <<nops, scriptFrame>>

ScriptNext ==
  \/ \E created \in BOOLEAN : ScriptStart(created)
  \/ \E h \in Hashes \cup {NoHash}, n \in {Ana, Bob} : ScriptIteration(h, n)
  \/ ScriptRaises
  \/ ScriptSave

ScriptSpec == ScriptInit /\ [][ScriptNext]_vars

\* C40: a run of main.main leaves in faces_data.json every fingerprint that
\* had a name in it before, whether the file was a JSON object or an array of
\* records.
C40_ScriptKeepsFileAssociations ==
  [][(script.pc = "playing" /\ script'.pc = "done") =>
       \A h \in Hashes :
         FileLookup(jsonFile, h) # NoName => FileLookup(jsonFile', h) # NoName]_vars

====
